---- MODULE Spec2Model ----
(***************************************************************************)
(* find4me: the in-memory entity store (MemStorage), its conversation      *)
(* aggregation, and the /api request handlers that sit on top of it.       *)
(*                                                                         *)
(* JavaScript values are encoded as follows.                               *)
(*   - a Map keyed by the sequential ids 1, 2, ... is a sequence: the      *)
(*     Map's iteration order is its insertion order, which is id order;    *)
(*   - a string that is inspected character by character (a name, a path   *)
(*     segment) is a sequence of one-character strings over ISO 8859-1;    *)
(*   - the optional boolean `read` is one of "true", "false" and           *)
(*     "undefined" (the last stands for an absent property);               *)
(*   - a Date is the integer clock value at which it was taken;            *)
(*     an absent Date is NoTime;                                           *)
(*   - an async function runs up to its first `await` when it is called    *)
(*     and is resumed once per later `await`; a call that is waiting is an *)
(*     element of `inflight`, and the steps of different calls interleave. *)
(***************************************************************************)
EXTENDS Integers, Sequences, FiniteSets, Bags, TLC

\* ---------------------------------------------------------------- bounds
MaxUsers == 2
MaxMessages == 2
MaxGuesses == 1
MaxTime == 2
MaxRequests == 2

\* ------------------------------------------------------- input universes
\* ids a caller may name; an id above the users created so far is dangling
UserIds == 1..MaxUsers
RealNames == { <<"É","v">> }
GuessedNames == { <<"é","V">>, <<"É","v">>, <<"É","v","a">> }
FakeNames == { "Fox" }
Contents == { "hi" }
RouteContents == { "damn" }
\* the receiverId a POST /api/messages body names, and the targetId of the
\* guess that is posted next to the other routes
RouteReceivers == { 1 }
RouteTargets == { 2 }
DraftReads == { "undefined", "false", "true" }
UnreadDrafts == { "undefined", "false" }
NoTime == 0 - 1
NoUser == 0

VARIABLES users, messages, guesses,
          userCurrentId, messageCurrentId, guessCurrentId,
          now, inflight, lastResponse

storeVars == <<users, messages, guesses, userCurrentId, messageCurrentId, guessCurrentId>>
vars == <<users, messages, guesses, userCurrentId, messageCurrentId, guessCurrentId,
          now, inflight, lastResponse>>

\* ------------------------------------------------------------ JS helpers
\* the characters of ISO 8859-1 that toLowerCase changes, and their images
UpperChars == <<"A","B","C","D","E","F","G","H","I","J","K","L","M",
                "N","O","P","Q","R","S","T","U","V","W","X","Y","Z",
                "À","Á","Â","Ã","Ä","Å","Æ","Ç","È","É","Ê","Ë","Ì","Í","Î","Ï",
                "Ð","Ñ","Ò","Ó","Ô","Õ","Ö","Ø","Ù","Ú","Û","Ü","Ý","Þ">>
LowerChars == <<"a","b","c","d","e","f","g","h","i","j","k","l","m",
                "n","o","p","q","r","s","t","u","v","w","x","y","z",
                "à","á","â","ã","ä","å","æ","ç","è","é","ê","ë","ì","í","î","ï",
                "ð","ñ","ò","ó","ô","õ","ö","ø","ù","ú","û","ü","ý","þ">>

\* String.prototype.toLowerCase on one character
ToLowerChar(c) ==
  IF \E k \in 1..Len(UpperChars) : UpperChars[k] = c
  THEN LowerChars[CHOOSE k \in 1..Len(UpperChars) : UpperChars[k] = c]
  ELSE c

\* variant: the comparison is made on the strings as given
KeepCase(s) == s

\* String.prototype.toLowerCase
ToLowerCase(s) == [i \in 1..Len(s) |-> ToLowerChar(s[i])]

\* !message.read : only the boolean true is truthy among the values of `read`
NotRead(m) == m.read # "true"

Range(s) == { s[i] : i \in 1..Len(s) }

\* Array.prototype.filter; keep is the set of the elements the callback accepts
Filter(s, keep) == SelectSeq(s, LAMBDA x : x \in keep)

\* Array.prototype.sort(cmp): a stable sort; cmp[a, b] > 0 puts b before a.
\* Each element in turn is moved left past the elements that compare greater.
Sort(s, cmp) ==
  LET Insert(sorted, x) ==
        LET n == Len(sorted)
            pos == CHOOSE p \in 0..n :
                     /\ \A i \in (p + 1)..n : cmp[sorted[i], x] > 0
                     /\ (p = 0 \/ cmp[sorted[p], x] <= 0)
        IN SubSeq(sorted, 1, pos) \o <<x>> \o SubSeq(sorted, pos + 1, n)
      done[i \in 0..Len(s)] == IF i = 0 THEN << >> ELSE Insert(done[i - 1], s[i])
  IN done[Len(s)]

\* StrWhiteSpaceChar, as far as ISO 8859-1 has it: U+0009 to U+000D (the third
\* of them is the vertical tab U+000B), the space, and U+00A0
WhiteSpace == { "\t", "\n", "", "\f", "\r", " ", " " }
DecDigits == <<"0", "1", "2", "3", "4", "5", "6", "7", "8", "9">>
HexDigits == <<"a", "b", "c", "d", "e", "f">>

\* the value of character c as a digit of the radix, or -1
DigitValue(c, radix) ==
  IF \E k \in 1..10 : DecDigits[k] = c
  THEN (CHOOSE k \in 1..10 : DecDigits[k] = c) - 1
  ELSE IF radix = 16 /\ \E k \in 1..6 : HexDigits[k] = ToLowerChar(c)
       THEN 9 + (CHOOSE k \in 1..6 : HexDigits[k] = ToLowerChar(c))
       ELSE 0 - 1

\* parseInt(string) without a radix: leading white space is skipped, a sign is
\* read, "0x"/"0X" selects radix 16, and the longest prefix of digits is the
\* number; the rest of the string is ignored. No digit at all gives NaN.
ParseIntParts(param) ==
  LET RECURSIVE Skip(_)
      Skip(s) == IF s # << >> /\ Head(s) \in WhiteSpace THEN Skip(Tail(s)) ELSE s
      trimmed == Skip(param)
      signed == trimmed # << >> /\ Head(trimmed) \in { "+", "-" }
      unsigned == IF signed THEN Tail(trimmed) ELSE trimmed
      hex == Len(unsigned) >= 2 /\ unsigned[1] = "0" /\ unsigned[2] \in { "x", "X" }
      radix == IF hex THEN 16 ELSE 10
      body == IF hex THEN SubSeq(unsigned, 3, Len(unsigned)) ELSE unsigned
      n == CHOOSE k \in 0..Len(body) :
             /\ \A i \in 1..k : DigitValue(body[i], radix) >= 0
             /\ (k < Len(body) => DigitValue(body[k + 1], radix) < 0)
      value[i \in 0..n] ==
        IF i = 0 THEN 0 ELSE value[i - 1] * radix + DigitValue(body[i], radix)
  IN [digits |-> n,
      number |-> IF signed /\ Head(trimmed) = "-" THEN 0 - value[n] ELSE value[n]]

\* isNaN(parseInt(param))
IsNaN(param) == ParseIntParts(param).digits = 0
\* parseInt(param) for a param that does not give NaN
ParseInt(param) == ParseIntParts(param).number

\* ------------------------------------------------------------ MemStorage
\* getUser: this.users.get(id); undefined when absent
HasUser(us, id) == id \in 1..Len(us)

\* createUser
CreateUserIn(us, id, insertUser, t) ==
  Append(us, [id |-> id, realName |-> insertUser.realName,
              fakeName |-> insertUser.fakeName, lastActive |-> t])

\* updateUserLastActive after its await: user.lastActive = new Date() on the
\* object that getUser returned (found), nothing when it returned undefined
UpdateUserLastActiveIn(us, id, found, t) ==
  IF found THEN [us EXCEPT ![id].lastActive = t] ELSE us

\* variant: the key is messages.size instead of the counter, so the newest
\* stored message is overwritten
CreateMessageAtSize(msgs, id, insertMessage, t) ==
  LET message == [id |-> id, senderId |-> insertMessage.senderId,
                  receiverId |-> insertMessage.receiverId,
                  content |-> insertMessage.content,
                  timestamp |-> t, read |-> insertMessage.read]
  IN IF msgs = << >> THEN <<message>> ELSE [msgs EXCEPT ![Len(msgs)] = message]

\* createMessage: { ...insertMessage, id, timestamp }
CreateMessageIn(msgs, id, insertMessage, t) ==
  Append(msgs, [id |-> id, senderId |-> insertMessage.senderId,
                receiverId |-> insertMessage.receiverId,
                content |-> insertMessage.content,
                timestamp |-> t, read |-> insertMessage.read])

\* the predicate of getMessagesBetweenUsers' filter
Between(m, userId1, userId2) ==
  \/ (m.senderId = userId1 /\ m.receiverId = userId2)
  \/ (m.senderId = userId2 /\ m.receiverId = userId1)

AscendingByTimestamp(a, b) == a.timestamp - b.timestamp
DescendingByTimestamp(a, b) == b.timestamp - a.timestamp

\* getMessagesBetweenUsers
GetMessagesBetweenUsers(msgs, userId1, userId2) ==
  LET found == Filter(msgs, { m \in Range(msgs) : Between(m, userId1, userId2) })
  IN Sort(found, [a \in Range(found), b \in Range(found) |-> AscendingByTimestamp(a, b)])

\* variant: counts only messages whose read is the boolean false (read === false)
UnreadCountStrictFalse(msgs, userId) ==
  Len(Filter(msgs, { m \in Range(msgs) : m.receiverId = userId /\ m.read = "false" }))

\* getUnreadMessagesCount
GetUnreadMessagesCount(msgs, userId) ==
  Len(Filter(msgs, { m \in Range(msgs) : m.receiverId = userId /\ NotRead(m) }))

\* variant: the sender test is dropped, every message to the receiver is marked
MarkAllToReceiver(msgs, senderId, receiverId) ==
  [i \in 1..Len(msgs) |->
     IF msgs[i].receiverId = receiverId /\ NotRead(msgs[i])
     THEN [msgs[i] EXCEPT !.read = "true"]
     ELSE msgs[i]]

\* variant: the !message.read test is dropped and the flag is negated
MarkToggles(msgs, senderId, receiverId) ==
  [i \in 1..Len(msgs) |->
     IF msgs[i].senderId = senderId /\ msgs[i].receiverId = receiverId
     THEN [msgs[i] EXCEPT !.read = IF NotRead(msgs[i]) THEN "true" ELSE "false"]
     ELSE msgs[i]]

\* markMessagesAsRead
MarkMessagesAsRead(msgs, senderId, receiverId) ==
  [i \in 1..Len(msgs) |->
     IF msgs[i].senderId = senderId /\ msgs[i].receiverId = receiverId /\ NotRead(msgs[i])
     THEN [msgs[i] EXCEPT !.read = "true"]
     ELSE msgs[i]]

\* createGuess: { ...insertGuess, id, timestamp }
CreateGuessIn(gs, id, insertGuess, t) ==
  Append(gs, [id |-> id, guesserId |-> insertGuess.guesserId,
              targetId |-> insertGuess.targetId,
              guessedName |-> insertGuess.guessedName,
              correct |-> insertGuess.correct, timestamp |-> t])

\* getGuessesForUser
GetGuessesForUser(gs, userId) ==
  LET found == Filter(gs, { g \in Range(gs) : g.guesserId = userId \/ g.targetId = userId })
  IN Sort(found, [a \in Range(found), b \in Range(found) |-> DescendingByTimestamp(a, b)])

\* variant: the else-if branch is missing, senders to userId are never collected
RECURSIVE ReceiversOnly(_, _, _)
ReceiversOnly(seen, msgs, userId) ==
  IF msgs = << >> THEN seen
  ELSE LET m == Head(msgs)
           other == IF m.senderId = userId THEN m.receiverId ELSE NoUser
       IN IF other = NoUser \/ other \in Range(seen)
          THEN ReceiversOnly(seen, Tail(msgs), userId)
          ELSE ReceiversOnly(Append(seen, other), Tail(msgs), userId)

\* getConversationsForUser, first loop: the Set interactedUserIds in insertion order
RECURSIVE InteractedUserIds(_, _, _)
InteractedUserIds(seen, msgs, userId) ==
  IF msgs = << >> THEN seen
  ELSE LET m == Head(msgs)
           other == IF m.senderId = userId THEN m.receiverId
                    ELSE IF m.receiverId = userId THEN m.senderId
                    ELSE NoUser
       IN IF other = NoUser \/ other \in Range(seen)
          THEN InteractedUserIds(seen, Tail(msgs), userId)
          ELSE InteractedUserIds(Append(seen, other), Tail(msgs), userId)

\* getConversationsForUser, loop body after `if (!otherUser) continue`: the
\* conversation with one counterpart. allMessages is the array of message
\* objects taken when the call was made, read as the objects are now.
ConversationWith(us, allMessages, userId, otherUserId) ==
  LET found == Filter(allMessages,
                      { m \in Range(allMessages) : Between(m, userId, otherUserId) })
      conversationMessages ==
        Sort(found, [a \in Range(found), b \in Range(found) |-> DescendingByTimestamp(a, b)])
      unread == { m \in Range(conversationMessages) :
                    m.senderId = otherUserId /\ m.receiverId = userId /\ NotRead(m) }
  IN [userId |-> us[otherUserId].id,
      fakeName |-> us[otherUserId].fakeName,
      lastMessage |-> IF Len(conversationMessages) > 0
                      THEN conversationMessages[1].content ELSE "undefined",
      lastMessageTime |-> IF Len(conversationMessages) > 0
                          THEN conversationMessages[1].timestamp ELSE NoTime,
      unreadCount |-> Len(Filter(conversationMessages, unread))]

\* variant: the operands of the subtraction are swapped (oldest first)
ByOldestMessage(a, b) ==
  IF a.lastMessageTime = NoTime /\ b.lastMessageTime = NoTime THEN 0
  ELSE IF a.lastMessageTime = NoTime THEN 1
  ELSE IF b.lastMessageTime = NoTime THEN 0 - 1
  ELSE a.lastMessageTime - b.lastMessageTime

\* the comparator of the final sort
ByMostRecentMessage(a, b) ==
  IF a.lastMessageTime = NoTime /\ b.lastMessageTime = NoTime THEN 0
  ELSE IF a.lastMessageTime = NoTime THEN 1
  ELSE IF b.lastMessageTime = NoTime THEN 0 - 1
  ELSE b.lastMessageTime - a.lastMessageTime

\* the locals of a getConversationsForUser call that is not running
NoCall ==
  [userId |-> NoUser, allMessages |-> 0, interactedUserIds |-> << >>, next |-> 0,
   otherUser |-> NoUser, conversations |-> << >>, pc |-> "none"]

\* getConversationsForUser from the call to its first await: allMessages holds
\* the message objects stored so far (the first allMessages entries of the
\* map), the counterparts are collected, and getUser is called for the first
\* of them; with no counterpart the sorted empty list is returned at once
GetConversationsForUserCall(us, msgs, userId) ==
  LET ids == InteractedUserIds(<< >>, msgs, userId)
  IN [userId |-> userId, allMessages |-> Len(msgs), interactedUserIds |-> ids,
      next |-> 1,
      otherUser |-> IF ids # << >> /\ HasUser(us, ids[1]) THEN ids[1] ELSE NoUser,
      conversations |-> << >>,
      pc |-> IF ids = << >> THEN "return" ELSE "await"]

\* getConversationsForUser resumed after `await this.getUser(otherUserId)`:
\* the rest of this iteration, then either the getUser call of the next
\* iteration or the final sort and the return
GetConversationsForUserResume(call, us, msgs) ==
  LET otherUserId == call.interactedUserIds[call.next]
      conversations ==
        IF call.otherUser = NoUser THEN call.conversations
        ELSE Append(call.conversations,
                    ConversationWith(us, SubSeq(msgs, 1, call.allMessages),
                                     call.userId, otherUserId))
  IN IF call.next < Len(call.interactedUserIds)
     THEN LET following == call.interactedUserIds[call.next + 1]
          IN [call EXCEPT !.conversations = conversations,
                          !.next = call.next + 1,
                          !.otherUser = IF HasUser(us, following) THEN following ELSE NoUser]
     ELSE [call EXCEPT
             !.conversations =
                Sort(conversations, [a \in Range(conversations), b \in Range(conversations)
                                       |-> ByMostRecentMessage(a, b)]),
             !.otherUser = NoUser,
             !.pc = "return"]

\* ---------------------------------------------------------- calls in flight
\* An async call that is waiting at an await, with its locals: user is the
\* session's user (NoUser for a call made on the store directly), other the
\* id it was called with, thread the ids of the message objects of a fetched
\* array, marked the ids of the messages it has flipped, got a number it
\* holds (a count, an array length, the id of a created record), flag a
\* boolean it holds (the user was found, the guess is correct), name the
\* guessed name, call the locals of its getConversationsForUser call.
Pending(route, pc, user) ==
  [route |-> route, pc |-> pc, user |-> user, other |-> NoUser,
   thread |-> << >>, marked |-> {}, got |-> 0, flag |-> FALSE, name |-> << >>,
   call |-> NoCall]

CanSuspend == BagCardinality(inflight) < MaxRequests
Suspended(route, pc) ==
  { c \in BagToSet(inflight) : c.route = route /\ c.pc = pc }
Suspend(c) == inflight (+) SetToBag({c})
Resume(c, d) == (inflight (-) SetToBag({c})) (+) SetToBag({d})
Finish(c) == inflight (-) SetToBag({c})

\* ------------------------------------------------- store-level behaviour
NoResponse == [route |-> "none", auth |-> TRUE, status |-> 0]

Init ==
  /\ users = << >>
  /\ messages = << >>
  /\ guesses = << >>
  /\ userCurrentId = 1
  /\ messageCurrentId = 1
  /\ guessCurrentId = 1
  /\ now = 1
  /\ inflight = EmptyBag
  /\ lastResponse = NoResponse

\* new Date() is taken from a clock that moves forward between calls
Tick ==
  /\ now < MaxTime
  /\ now' = now + 1
  /\ lastResponse' = NoResponse
  /\ UNCHANGED <<storeVars, inflight>>

CreateUser ==
  /\ userCurrentId <= MaxUsers
  /\ \E rn \in RealNames, fn \in FakeNames :
       users' = CreateUserIn(users, userCurrentId, [realName |-> rn, fakeName |-> fn], now)
  /\ userCurrentId' = userCurrentId + 1
  /\ UNCHANGED <<messages, guesses, messageCurrentId, guessCurrentId, now, inflight>>
  /\ lastResponse' = NoResponse

\* updateUserLastActive up to `await this.getUser(id)`: the map is read
UpdateUserLastActiveCall ==
  /\ CanSuspend
  /\ \E id \in UserIds :
       inflight' = Suspend([Pending("updateUserLastActive", "write", NoUser) EXCEPT
                              !.other = id, !.flag = HasUser(users, id)])
  /\ lastResponse' = NoResponse
  /\ UNCHANGED <<storeVars, now>>

\* updateUserLastActive resumed: if (user) { user.lastActive = new Date(); ... }
UpdateUserLastActiveWrite ==
  \E c \in Suspended("updateUserLastActive", "write") :
    /\ users' = UpdateUserLastActiveIn(users, c.other, c.flag, now)
    /\ inflight' = Finish(c)
    /\ lastResponse' = NoResponse
    /\ UNCHANGED <<messages, guesses, userCurrentId, messageCurrentId, guessCurrentId, now>>

\* createMessage with a draft whose read value is drawn from `reads`
CreateMessageWith(reads) ==
  /\ messageCurrentId <= MaxMessages
  /\ \E s \in UserIds, r \in UserIds, c \in Contents, rd \in reads :
       messages' = CreateMessageIn(messages, messageCurrentId,
                     [senderId |-> s, receiverId |-> r, content |-> c, read |-> rd], now)
  /\ messageCurrentId' = messageCurrentId + 1
  /\ UNCHANGED <<users, guesses, userCurrentId, guessCurrentId, now, inflight>>
  /\ lastResponse' = NoResponse

MarkAsRead ==
  /\ \E s \in UserIds, r \in UserIds : messages' = MarkMessagesAsRead(messages, s, r)
  /\ UNCHANGED <<users, guesses, userCurrentId, messageCurrentId, guessCurrentId,
                 now, inflight>>
  /\ lastResponse' = NoResponse

\* the store persists whatever `correct` value it is given
CreateGuess ==
  /\ guessCurrentId <= MaxGuesses
  /\ \E g \in UserIds, t \in UserIds, n \in GuessedNames, c \in BOOLEAN :
       guesses' = CreateGuessIn(guesses, guessCurrentId,
                    [guesserId |-> g, targetId |-> t, guessedName |-> n, correct |-> c], now)
  /\ guessCurrentId' = guessCurrentId + 1
  /\ UNCHANGED <<users, messages, userCurrentId, messageCurrentId, now, inflight>>
  /\ lastResponse' = NoResponse

CreateMessage == CreateMessageWith(DraftReads)

\* drafts as the application's only caller builds them, or with read left out
CreateUnreadMessage == CreateMessageWith(UnreadDrafts)

\* getConversationsForUser called on the store, up to its first await
ConversationsStart ==
  /\ CanSuspend
  /\ \E userId \in UserIds :
       inflight' = Suspend([Pending("getConversationsForUser", "call", NoUser) EXCEPT
                              !.call = GetConversationsForUserCall(users, messages, userId)])
  /\ lastResponse' = NoResponse
  /\ UNCHANGED <<storeVars, now>>

\* a getConversationsForUser call, made on the store or by the route, resumed
\* after one `await this.getUser(otherUserId)`
ConversationsStep ==
  \E c \in BagToSet(inflight) :
    /\ c.call.pc = "await"
    /\ inflight' = Resume(c, [c EXCEPT
                                !.call = GetConversationsForUserResume(c.call, users, messages)])
    /\ lastResponse' = NoResponse
    /\ UNCHANGED <<storeVars, now>>

\* the promise of a getConversationsForUser call made on the store resolves
ConversationsReturn ==
  \E c \in Suspended("getConversationsForUser", "call") :
    /\ c.call.pc = "return"
    /\ lastResponse' = [route |-> "getConversationsForUser", auth |-> TRUE, status |-> 0,
                        user |-> c.call.userId, body |-> c.call.conversations,
                        allMessages |-> c.call.allMessages]
    /\ inflight' = Finish(c)
    /\ UNCHANGED <<storeVars, now>>

\* every state-changing operation of the store
Next ==
  \/ Tick
  \/ CreateUser
  \/ UpdateUserLastActiveCall
  \/ UpdateUserLastActiveWrite
  \/ CreateMessage
  \/ MarkAsRead
  \/ CreateGuess

Spec == Init /\ [][Next]_vars

\* messages alone: drafts that do not override read, marking, and the clock
MsgNext ==
  \/ Tick
  \/ CreateUnreadMessage
  \/ MarkAsRead

MsgSpec == Init /\ [][MsgNext]_vars

\* the store after the first k users have registered
RECURSIVE Registered(_)
Registered(k) ==
  IF k = 0 THEN << >>
  ELSE CreateUserIn(Registered(k - 1), k,
                    [realName |-> CHOOSE rn \in RealNames : TRUE,
                     fakeName |-> CHOOSE fn \in FakeNames : TRUE], 1)

ConvInit ==
  /\ \E k \in 0..MaxUsers :
       /\ users = Registered(k)
       /\ userCurrentId = k + 1
  /\ messages = << >>
  /\ guesses = << >>
  /\ messageCurrentId = 1
  /\ guessCurrentId = 1
  /\ now = 1
  /\ inflight = EmptyBag
  /\ lastResponse = NoResponse

\* conversations: messages exchanged among registered and unregistered ids
ConvNext ==
  \/ Tick
  \/ CreateUnreadMessage
  \/ MarkAsRead

ConvSpec == ConvInit /\ [][ConvNext]_vars

\* the application's drafts, which carry read: false
CreateDraftMessage == CreateMessageWith({ "false" })

\* getConversationsForUser calls whose steps interleave with new messages
CallNext ==
  \/ Tick
  \/ CreateDraftMessage
  \/ ConversationsStart
  \/ ConversationsStep
  \/ ConversationsReturn

CallSpec == ConvInit /\ [][CallNext]_vars

\* ------------------------------------------------------- request handlers
\* A request body field: a JSON number, string or boolean, or a missing property
Num(n) == [t |-> "number", v |-> n]
Str(x) == [t |-> "string", v |-> x]
Bool(b) == [t |-> "boolean", v |-> b]
Missing == [t |-> "undefined", v |-> 0]

\* values of the :userId path segment: the second user, and no number
PathParams == { <<"0", "2">>, <<"a", "b", "c">> }

\* the session of a request: passport sets req.user exactly when
\* req.isAuthenticated() holds, and only to a stored user
Sessions ==
  { [auth |-> TRUE, user |-> u] : u \in 1..Len(users) }
    \cup { [auth |-> FALSE, user |-> NoUser] }

MessageBodies ==
  { [receiverId |-> r, content |-> Str(c)] :
      r \in { Num(i) : i \in RouteReceivers } \cup { Missing }, c \in RouteContents }
GuessBodies(targets, names) ==
  { [targetId |-> t, guessedName |-> Str(n), correct |-> k] :
      t \in { Num(i) : i \in targets } \cup { Missing }, n \in names,
      k \in { Bool(TRUE), Bool(FALSE), Missing } }

\* insertMessageSchema.parse({...req.body, senderId}) does not throw
ParsesAsInsertMessage(body) == body.receiverId.t = "number" /\ body.content.t = "string"
\* insertGuessSchema.parse({...req.body, guesserId}) does not throw: targetId,
\* guessedName and correct are notNull columns without a default
ParsesAsInsertGuess(body) ==
  /\ body.targetId.t = "number"
  /\ body.guessedName.t = "string"
  /\ body.correct.t = "boolean"

\* filterMessage: the profanity filter, an opaque text -> text function
FilterMessage(content) == IF content = "damn" THEN "****" ELSE content

\* variant: the 401 branch is missing, next() is always called
RequireAuthAlwaysNext(isAuthenticated) == "next"

\* requireAuth
RequireAuth(isAuthenticated) == IF ~isAuthenticated THEN "401" ELSE "next"

Response(route, sess, status, body) ==
  [route |-> route, auth |-> sess.auth, user |-> sess.user, other |-> NoUser,
   status |-> status, body |-> body, marked |-> {}]

\* a response sent before the handler has awaited anything
Reply(route, sess, status, body) ==
  /\ lastResponse' = Response(route, sess, status, body)
  /\ UNCHANGED <<storeVars, now, inflight>>

\* a response sent by a resumed handler, which then ends
ReplyAndFinish(c, status, body) ==
  /\ lastResponse' = Response(c.route, [auth |-> TRUE, user |-> c.user], status, body)
  /\ inflight' = Finish(c)
  /\ UNCHANGED <<storeVars, now>>

\* the handler stops at an await with locals c
Await(c) ==
  /\ CanSuspend
  /\ inflight' = Suspend(c)
  /\ lastResponse' = NoResponse
  /\ UNCHANGED <<storeVars, now>>

\* res.status(401).json({ message: "Unauthorized" })
Unauthorized(route, sess) == Reply(route, sess, 401, [message |-> "Unauthorized"])

\* req.user!.id with req.user undefined throws inside the try block
CaughtError(route, sess, text) == Reply(route, sess, 500, [message |-> text])

\* the profile fields GET /api/users returns
PublicProfile(user) ==
  [id |-> user.id, fakeName |-> user.fakeName, lastActive |-> user.lastActive]

\* GET /api/users up to `await storage.getAllUsers()`: the array holds the
\* user objects stored so far
GetUsersStart ==
  \E sess \in Sessions :
    IF RequireAuth(sess.auth) = "401" THEN Unauthorized("users", sess)
    ELSE IF sess.user = NoUser THEN CaughtError("users", sess, "Failed to get users")
    ELSE Await([Pending("users", "respond", sess.user) EXCEPT !.got = Len(users)])

\* GET /api/users resumed: filter, map and send; the fields are read from the
\* user objects as they are now
GetUsersRespond ==
  \E c \in Suspended("users", "respond") :
    LET allUsers == SubSeq(users, 1, c.got)
        others == Filter(allUsers, { user \in Range(allUsers) : user.id # c.user })
    IN ReplyAndFinish(c, 200, [i \in 1..Len(others) |-> PublicProfile(others[i])])

\* GET /api/conversations up to the first await of getConversationsForUser
GetConversationsStart ==
  \E sess \in Sessions :
    IF RequireAuth(sess.auth) = "401" THEN Unauthorized("conversations", sess)
    ELSE IF sess.user = NoUser
         THEN CaughtError("conversations", sess, "Failed to get conversations")
    ELSE Await([Pending("conversations", "call", sess.user) EXCEPT
                  !.call = GetConversationsForUserCall(users, messages, sess.user)])

\* GET /api/conversations resumed with the list the call returned
GetConversationsRespond ==
  \E c \in Suspended("conversations", "call") :
    /\ c.call.pc = "return"
    /\ ReplyAndFinish(c, 200, c.call.conversations)

\* GET /api/messages/unread/count up to `await storage.getUnreadMessagesCount`
GetUnreadCountStart ==
  \E sess \in Sessions :
    IF RequireAuth(sess.auth) = "401" THEN Unauthorized("unread", sess)
    ELSE IF sess.user = NoUser THEN CaughtError("unread", sess, "Failed to get unread count")
    ELSE Await([Pending("unread", "respond", sess.user) EXCEPT
                  !.got = GetUnreadMessagesCount(messages, sess.user)])

\* GET /api/messages/unread/count resumed: res.status(200).json({ count })
GetUnreadCountRespond ==
  \E c \in Suspended("unread", "respond") : ReplyAndFinish(c, 200, [count |-> c.got])

\* GET /api/messages/:userId, up to the await of getMessagesBetweenUsers
GetMessagesStart ==
  \E sess \in Sessions :
    IF RequireAuth(sess.auth) = "401" THEN Unauthorized("messages", sess)
    ELSE IF sess.user = NoUser THEN CaughtError("messages", sess, "Failed to get messages")
    ELSE \E param \in PathParams :
      IF IsNaN(param) THEN Reply("messages", sess, 400, [message |-> "Invalid user ID"])
      ELSE LET otherUserId == ParseInt(param)
               found == GetMessagesBetweenUsers(messages, sess.user, otherUserId)
           IN Await([Pending("messages", "mark", sess.user) EXCEPT
                       !.other = otherUserId,
                       !.thread = [i \in 1..Len(found) |-> found[i].id]])

\* GET /api/messages/:userId, resumed: markMessagesAsRead(otherUserId, currentUserId)
GetMessagesMark ==
  \E c \in Suspended("messages", "mark") :
    /\ messages' = MarkMessagesAsRead(messages, c.other, c.user)
    /\ inflight' = Resume(c, [c EXCEPT !.pc = "respond",
                       !.marked = { i \in 1..Len(messages) : messages[i].read # messages'[i].read }])
    /\ lastResponse' = NoResponse
    /\ UNCHANGED <<users, guesses, userCurrentId, messageCurrentId, guessCurrentId, now>>

\* GET /api/messages/:userId, resumed: res.status(200).json(messages) serialises
\* the message objects as they are now
GetMessagesRespond ==
  \E c \in Suspended("messages", "respond") :
    /\ lastResponse' =
         [Response("messages", [auth |-> TRUE, user |-> c.user], 200,
                   [i \in 1..Len(c.thread) |-> messages[c.thread[i]]])
            EXCEPT !.other = c.other, !.marked = c.marked]
    /\ inflight' = Finish(c)
    /\ UNCHANGED <<storeVars, now>>

\* POST /api/messages, up to the await of createMessage
PostMessageStart ==
  \E sess \in Sessions :
    IF RequireAuth(sess.auth) = "401" THEN Unauthorized("send", sess)
    ELSE IF sess.user = NoUser THEN CaughtError("send", sess, "Failed to send message")
    ELSE \E body \in MessageBodies :
      IF ~ParsesAsInsertMessage(body)
      THEN Reply("send", sess, 400, [message |-> "Invalid data"])
      ELSE /\ CanSuspend
           /\ messageCurrentId <= MaxMessages
           /\ messages' = CreateMessageIn(messages, messageCurrentId,
                             [senderId |-> sess.user, receiverId |-> body.receiverId.v,
                              content |-> FilterMessage(body.content.v), read |-> "false"], now)
           /\ messageCurrentId' = messageCurrentId + 1
           /\ inflight' = Suspend([Pending("send", "respond", sess.user) EXCEPT
                                     !.got = messageCurrentId])
           /\ lastResponse' = NoResponse
           /\ UNCHANGED <<users, guesses, userCurrentId, guessCurrentId, now>>

\* POST /api/messages, resumed: res.status(201).json(message)
PostMessageRespond ==
  \E c \in Suspended("send", "respond") : ReplyAndFinish(c, 201, messages[c.got])

\* JSON.stringify({ ...guess, targetRealName: correct ? realName : undefined }):
\* a property whose value is undefined is left out
GuessJson(guess, correct, realName) ==
  IF correct
  THEN [id |-> guess.id, guesserId |-> guess.guesserId, targetId |-> guess.targetId,
        guessedName |-> guess.guessedName, correct |-> guess.correct,
        timestamp |-> guess.timestamp, targetRealName |-> realName]
  ELSE [id |-> guess.id, guesserId |-> guess.guesserId, targetId |-> guess.targetId,
        guessedName |-> guess.guessedName, correct |-> guess.correct,
        timestamp |-> guess.timestamp]

\* POST /api/guess for guesses in `names` about users in `targets`, up to
\* `await storage.getUser(targetId)`:
\* the body is parsed and the users map is read
PostGuessStartWith(targets, names) ==
  \E sess \in Sessions :
    IF RequireAuth(sess.auth) = "401" THEN Unauthorized("guess", sess)
    ELSE IF sess.user = NoUser THEN CaughtError("guess", sess, "Failed to submit guess")
    ELSE \E body \in GuessBodies(targets, names) :
      IF ~ParsesAsInsertGuess(body)
      THEN Reply("guess", sess, 400, [message |-> "Invalid data"])
      ELSE Await([Pending("guess", "check", sess.user) EXCEPT
                    !.other = body.targetId.v,
                    !.name = body.guessedName.v,
                    !.flag = HasUser(users, body.targetId.v)])

\* POST /api/guess resumed with targetUser: 404 when it is undefined, else the
\* comparison and the call of createGuess, which is awaited
PostGuessCheck ==
  \E c \in Suspended("guess", "check") :
    IF ~c.flag
    THEN ReplyAndFinish(c, 404, [message |-> "Target user not found"])
    ELSE LET targetUser == users[c.other]
             correct == ToLowerCase(targetUser.realName) = ToLowerCase(c.name)
         IN /\ guessCurrentId <= MaxGuesses
            /\ guesses' = CreateGuessIn(guesses, guessCurrentId,
                             [guesserId |-> c.user, targetId |-> c.other,
                              guessedName |-> c.name, correct |-> correct], now)
            /\ guessCurrentId' = guessCurrentId + 1
            /\ inflight' = Resume(c, [c EXCEPT !.pc = "respond", !.got = guessCurrentId,
                                               !.flag = correct])
            /\ lastResponse' = NoResponse
            /\ UNCHANGED <<users, messages, userCurrentId, messageCurrentId, now>>

\* POST /api/guess resumed with the stored guess: the 201 response
PostGuessRespond ==
  \E c \in Suspended("guess", "respond") :
    ReplyAndFinish(c, 201, GuessJson(guesses[c.got], c.flag, users[c.other].realName))

PostGuessStart == PostGuessStartWith(UserIds, GuessedNames)

\* one guess, which differs from the real name in case only
PostOneGuessStart == PostGuessStartWith(RouteTargets, { <<"é","V">> })

\* the /api routes of registerRoutes, with registration and the clock, the
\* steps of up to MaxRequests handlers interleaving
RouteNext ==
  \/ Tick
  \/ CreateUser
  \/ GetUsersStart
  \/ GetUsersRespond
  \/ GetConversationsStart
  \/ ConversationsStep
  \/ GetConversationsRespond
  \/ GetUnreadCountStart
  \/ GetUnreadCountRespond
  \/ GetMessagesStart
  \/ GetMessagesMark
  \/ GetMessagesRespond
  \/ PostMessageStart
  \/ PostMessageRespond
  \/ PostOneGuessStart
  \/ PostGuessCheck
  \/ PostGuessRespond

RouteSpec == Init /\ [][RouteNext]_vars

\* the two message routes with registration and the clock, the steps of up
\* to MaxRequests handlers interleaving
ThreadNext ==
  \/ Tick
  \/ CreateUser
  \/ GetMessagesStart
  \/ GetMessagesMark
  \/ GetMessagesRespond
  \/ PostMessageStart
  \/ PostMessageRespond

ThreadSpec == Init /\ [][ThreadNext]_vars

\* the guessing route alone, with registration, the steps of up to
\* MaxRequests handlers interleaving
GuessNext ==
  \/ Tick
  \/ CreateUser
  \/ PostGuessStart
  \/ PostGuessCheck
  \/ PostGuessRespond

GuessSpec == Init /\ [][GuessNext]_vars

\* ------------------------------------------------------------ properties
MessageIds == 1..Len(messages)
Unread(i) == messages[i].read # "true"
UnreadFromTo(s, r) ==
  { i \in MessageIds : messages[i].senderId = s /\ messages[i].receiverId = r /\ Unread(i) }
UnreadTo(r) == { i \in MessageIds : messages[i].receiverId = r /\ Unread(i) }
Exchanged(u, c) ==
  { i \in MessageIds : \/ messages[i].senderId = u /\ messages[i].receiverId = c
                       \/ messages[i].senderId = c /\ messages[i].receiverId = u }
Max(S) == CHOOSE x \in S : \A y \in S : y <= x
ExchangedAmong(u, c, n) == { i \in Exchanged(u, c) : i <= n }

\* the list a getConversationsForUser(u) call returns when it is made in this
\* state and nothing else runs before it returns
RECURSIVE RunToReturn(_)
RunToReturn(call) ==
  IF call.pc = "return" THEN call.conversations
  ELSE RunToReturn(GetConversationsForUserResume(call, users, messages))
Conversations(u) == RunToReturn(GetConversationsForUserCall(users, messages, u))

\* a getConversationsForUser call has returned in this step
Returned == lastResponse.route = "getConversationsForUser"

RECURSIVE SumUnreadCount(_)
SumUnreadCount(convs) ==
  IF convs = << >> THEN 0 ELSE Head(convs).unreadCount + SumUnreadCount(Tail(convs))

\* C1: for every sender s and receiver r, the unread count of r after
\* markMessagesAsRead(s, r) is its count before minus the number of unread
\* messages from s to r; unread messages to r from other senders stay unread.
C1_UnreadCountDropsBySenderUnread ==
  \A s \in UserIds, r \in UserIds :
    LET after == MarkMessagesAsRead(messages, s, r)
    IN /\ GetUnreadMessagesCount(after, r)
            = GetUnreadMessagesCount(messages, r) - Cardinality(UnreadFromTo(s, r))
       /\ \A i \in UnreadTo(r) : messages[i].senderId # s => after[i].read # "true"

\* a receiver with unread messages from two senders: marking one sender's
\* messages lowers the count by one and leaves the other's message counted
C1_Witness ==
  \E s \in UserIds, o \in UserIds, r \in UserIds :
    /\ s # o
    /\ UnreadFromTo(s, r) # {}
    /\ UnreadFromTo(o, r) # {}
    /\ GetUnreadMessagesCount(MarkMessagesAsRead(messages, s, r), r) = 1

\* C2: a stored message keeps its id, senderId, receiverId, content and
\* timestamp in every step, and its read flag never leaves true.
C2_MessagesImmutableExceptRead ==
  [][\A i \in MessageIds :
       /\ i <= Len(messages')
       /\ messages'[i].id = messages[i].id
       /\ messages'[i].senderId = messages[i].senderId
       /\ messages'[i].receiverId = messages[i].receiverId
       /\ messages'[i].content = messages[i].content
       /\ messages'[i].timestamp = messages[i].timestamp
       /\ (messages[i].read = "true" => messages'[i].read = "true")]_vars

\* an older message was marked read, and later operations of every kind followed
C2_Witness ==
  /\ Len(messages) >= 2
  /\ messages[1].read = "true"
  /\ messages[2].read # "true"
  /\ messages[1].timestamp < messages[2].timestamp
  /\ guesses # << >>
  /\ \E u \in 1..Len(users) : users[u].lastActive > messages[1].timestamp

\* C3: a message just stored by createMessage from a to b occurs exactly once
\* in getMessagesBetweenUsers(a, b) and in getMessagesBetweenUsers(b, a), and
\* its read value is false, also when the draft carries no read value.
C3_CreatedMessageInThreadOnceAndReadFalse ==
  [][messageCurrentId' = messageCurrentId + 1 =>
       LET m == messages'[Len(messages')]
           Occurrences(thread) == Cardinality({ k \in 1..Len(thread) : thread[k].id = m.id })
       IN /\ Occurrences(GetMessagesBetweenUsers(messages', m.senderId, m.receiverId)) = 1
          /\ Occurrences(GetMessagesBetweenUsers(messages', m.receiverId, m.senderId)) = 1
          /\ m.read = "false"]_vars

\* C4: the list a getConversationsForUser call returns, whatever ran while it
\* was waiting, is in descending order of lastMessageTime, and lastMessageTime
\* is the time of the newest message exchanged with the counterpart among the
\* messages the call has read: a counterpart with a newer latest message
\* comes first.
C4_ConversationsNewestFirst ==
  Returned =>
    LET c == lastResponse.body
        u == lastResponse.user
        n == lastResponse.allMessages
    IN /\ \A i \in 1..Len(c) :
            /\ ExchangedAmong(u, c[i].userId, n) # {}
            /\ c[i].lastMessageTime
                 = Max({ messages[k].timestamp : k \in ExchangedAmong(u, c[i].userId, n) })
       /\ \A i \in 1..(Len(c) - 1) : c[i].lastMessageTime >= c[i + 1].lastMessageTime

\* the counterpart met first has the older latest message, so the sort reorders
C4_Witness ==
  /\ Returned
  /\ LET c == lastResponse.body
         met == InteractedUserIds(<< >>, SubSeq(messages, 1, lastResponse.allMessages),
                                  lastResponse.user)
     IN /\ Len(c) = 2
        /\ c[1].lastMessageTime > c[2].lastMessageTime
        /\ met = <<c[2].userId, c[1].userId>>

\* C8: in every state, the list that getConversationsForUser(u) returns
\* (called in that state, nothing running in between) names, once each,
\* exactly the existing users that sent a message to u or received one from u.
C8_ConversationsAreExistingCounterparts ==
  \A u \in UserIds :
    LET c == Conversations(u)
        named == { c[i].userId : i \in 1..Len(c) }
    IN /\ named = { x \in 1..Len(users) : Exchanged(u, x) # {} }
       /\ Cardinality(named) = Len(c)

\* u has one counterpart with a user record, one without, and the other way round
C8_Witness ==
  \E u \in UserIds, x \in UserIds, y \in UserIds :
    /\ x \in 1..Len(users) /\ x # u
    /\ y \notin 1..Len(users)
    /\ \E i \in MessageIds : messages[i].senderId = x /\ messages[i].receiverId = u
    /\ Exchanged(u, y) # {}
    /\ Len(Conversations(u)) = 1

\* C9: in every state in which every sender of a message to u has a user
\* record, the unreadCount values of the list that getConversationsForUser(u)
\* returns (called in that state, nothing running in between) add up to
\* getUnreadMessagesCount(u).
C9_ConversationUnreadSumsToCount ==
  \A u \in UserIds :
    (\A i \in MessageIds : messages[i].receiverId = u => messages[i].senderId \in 1..Len(users))
      => SumUnreadCount(Conversations(u)) = GetUnreadMessagesCount(messages, u)

\* two conversations of u with an unread message each, one stored without a read value
C9_Witness ==
  \E u \in UserIds :
    LET c == Conversations(u)
    IN /\ \A i \in MessageIds :
            messages[i].receiverId = u => messages[i].senderId \in 1..Len(users)
       /\ Len(c) = 2
       /\ c[1].unreadCount >= 1
       /\ c[2].unreadCount >= 1
       /\ \E i \in UnreadTo(u) : messages[i].read = "undefined"

\* C7: marking twice leaves the messages, and every user's unread count, as
\* marking once does.
C7_MarkAsReadIdempotent ==
  \A s \in UserIds, r \in UserIds :
    LET once == MarkMessagesAsRead(messages, s, r)
        twice == MarkMessagesAsRead(once, s, r)
    IN /\ twice = once
       /\ \A u \in UserIds :
            GetUnreadMessagesCount(twice, u) = GetUnreadMessagesCount(once, u)

\* the first call has something to flip, next to a message it must leave alone
C7_Witness ==
  \E s \in UserIds, r \in UserIds :
    /\ UnreadFromTo(s, r) # {}
    /\ MarkMessagesAsRead(messages, s, r) # messages
    /\ \E i \in MessageIds : messages[i].senderId = r /\ messages[i].receiverId = s /\ Unread(i)

\* two letters that differ at most in case
SameLetter(c, d) ==
  \/ c = d
  \/ \E k \in 1..Len(UpperChars) : {c, d} = {UpperChars[k], LowerChars[k]}
EqualsIgnoringCase(a, b) ==
  Len(a) = Len(b) /\ \A i \in 1..Len(a) : SameLetter(a[i], b[i])

\* C5: every guess stored by POST /api/guess has correct = true exactly when
\* guessedName equals the target's realName ignoring case; the 201 response
\* is the stored guess and carries targetRealName, equal to the target's
\* realName, exactly when correct is true.
C5_RealNameRevealedIffCorrect ==
  /\ \A i \in 1..Len(guesses) :
       /\ guesses[i].targetId \in 1..Len(users)
       /\ guesses[i].correct
            = EqualsIgnoringCase(guesses[i].guessedName, users[guesses[i].targetId].realName)
  /\ (lastResponse.route = "guess" /\ lastResponse.status = 201) =>
       LET body == lastResponse.body
       IN /\ body.id \in 1..Len(guesses)
          /\ body.correct = guesses[body.id].correct
          /\ body.guessedName = guesses[body.id].guessedName
          /\ body.targetId = guesses[body.id].targetId
          /\ ("targetRealName" \in DOMAIN body) = body.correct
          /\ body.correct => body.targetRealName = users[body.targetId].realName

\* a guess in other letter case than the real name was answered with the name
C5_Witness ==
  /\ lastResponse.route = "guess"
  /\ lastResponse.status = 201
  /\ lastResponse.body.correct
  /\ lastResponse.body.guessedName # users[lastResponse.body.targetId].realName
  /\ "targetRealName" \in DOMAIN lastResponse.body

\* C6: a request without an authenticated session is answered 401, no handler
\* is ever suspended on its behalf, and the step that answers it changes
\* neither the store nor the suspended handlers.
C6_UnauthenticatedRejectedWithoutEffect ==
  /\ [](/\ (lastResponse.route # "none" /\ ~lastResponse.auth) => lastResponse.status = 401
        /\ \A c \in BagToSet(inflight) : c.user # NoUser)
  /\ [][(lastResponse'.route # "none" /\ ~lastResponse'.auth)
          => UNCHANGED <<storeVars, inflight>>]_vars

\* an unauthenticated POST /api/messages was rejected while messages could
\* still be created and an unread message was waiting
C6_Witness ==
  /\ lastResponse.route = "send"
  /\ ~lastResponse.auth
  /\ lastResponse.status = 401
  /\ messageCurrentId <= MaxMessages
  /\ \E i \in MessageIds : Unread(i)

\* C10: every message that a GET /api/messages/:userId request for the thread
\* with another user marks read is in the thread that request returns, and
\* was sent by the counterpart to the current user.
C10_MarkedMessagesAreReturned ==
  (/\ lastResponse.route = "messages"
   /\ lastResponse.status = 200
   /\ lastResponse.other # lastResponse.user) =>
    /\ lastResponse.marked \subseteq
         { lastResponse.body[i].id : i \in 1..Len(lastResponse.body) }
    /\ \A i \in lastResponse.marked :
         /\ messages[i].senderId = lastResponse.other
         /\ messages[i].receiverId = lastResponse.user

====
